---- MODULE Spec2Model ----
(***************************************************************************)
(* Model of donut.py: Donut (src/Donut.py) and Stage (src/Stage.py).       *)
(*                                                                         *)
(* Arithmetic.  The program computes in IEEE doubles; the model computes   *)
(* in exact rationals.  Every coordinate of a point or a normal is kept as *)
(* an integer numerator over the common denominator Scale.  Angles are     *)
(* drawn from a set whose cosine and sine are rational (c/q, s/q), so the  *)
(* rotation matrices are exact.  Projection, interpolation and truncation  *)
(* are carried out on fractions <<n, d>> with d > 0, following the order   *)
(* of the comparisons of the code (np.interp's C routine included).        *)
(* Non-finite doubles (inf, nan) are modelled by kind.                     *)
(***************************************************************************)
EXTENDS Integers, Sequences, FiniteSets, TLC

\* Bound of the model: how many rotations by the non-right angle (q = 5) one
\* behaviour may apply.  Each such rotation divides by 5, so Scale keeps every
\* numerator integral.
MaxRot == 2

Scale == 5 ^ MaxRot

(***************************************************************************)
(* Inputs                                                                  *)
(***************************************************************************)
\* Angles A, B given to rotate_x, rotate_y and render_frame: cos = c/q, sin = s/q.
Zero == [c |-> 1, s |-> 0, q |-> 1]
Alpha == [c |-> 4, s |-> 3, q |-> 5]
Angles == {Zero, Alpha}

\* <<R1, R2>> within the caller contract R1, R2 > 0, and beyond it.
Radii == {<<1, 2>>, <<3, 3>>}
AnyRadii == Radii \cup {<<-1, 4>>, <<-2, 1>>}
\* <<num_thetas, num_phis>>: np.linspace(0, 2*pi, n) is exact in quarter turns
\* for these n.
Samples == {<<1, 1>>, <<3, 5>>}
Lights == {<<0, -1, -1>>, <<1, 0, 0>>}
\* <<f, d>>
Observers == {<<10, 5>>, <<5, 4>>, <<5, 5>>}
PixelSizes == {8}
\* Order np.argsort leaves equal keys in: by index ascending (a stable sort)
\* or descending; the default kind makes no promise.
TieOrders == {"low", "high"}
\* What casting nan to an integer yields: the most negative integer (x86) or
\* 0 (ARM).  IntMin stands for the former: any index below -num_pixels.
IntMin == -(2 ^ 30)
NanCasts == {IntMin, 0}

VARIABLES
    dona,       \* "none" | "built": whether Donut.__init__ has run
    R1, R2,     \* Donut.R1, Donut.R2
    points,     \* Donut.points: sequence of <<x, y, z>> numerators over Scale
    normals,    \* Donut.normals, likewise
    stage,      \* "none" | "ok" | "AssertionError": outcome of Stage.__init__
    f, d,       \* the f and d given to Stage.__init__ (Stage.f, Stage.d once built)
    light, num_pixels,   \* Stage.light, Stage.num_pixels
    screen,     \* Stage.screen: [0..n-1 -> [0..n-1 -> character]]
    tieOrder,   \* the build's np.argsort order of equal keys
    frame,      \* the locals of the latest render_frame call
    prevScreen, \* history: Stage.screen before the latest render_frame call
    orient,     \* history: product of all rotation matrices applied, over Scale
    nrot,       \* number of rotations by Alpha so far (model bound)
    last        \* name of the latest operation

vars == <<dona, R1, R2, points, normals, stage, light, f, d, num_pixels,
          screen, tieOrder, frame, prevScreen, orient, nrot, last>>

(***************************************************************************)
(* Fractions <<n, d>>, d > 0, and doubles by kind                          *)
(***************************************************************************)
Frac(n, dd) == IF dd < 0 THEN <<-n, -dd>> ELSE <<n, dd>>
FLess(a, b) == a[1] * b[2] < b[1] * a[2]
FEq(a, b) == a[1] * b[2] = b[1] * a[2]
\* C truncation toward zero of n/dd, dd > 0
Trunc(n, dd) == IF n >= 0 THEN n \div dd ELSE -((-n) \div dd)

\* a double: k is "fin" (value v, a fraction), "pinf", "ninf" or "nan"
Fin(v) == [k |-> "fin", v |-> v]
PInf == [k |-> "pinf", v |-> <<0, 1>>]
NInf == [k |-> "ninf", v |-> <<0, 1>>]
NaN == [k |-> "nan", v |-> <<0, 1>>]
Neg(x) ==
    CASE x.k = "fin" -> Fin(<<-x.v[1], x.v[2]>>)
      [] x.k = "pinf" -> NInf
      [] x.k = "ninf" -> PInf
      [] OTHER -> NaN
\* x < y on doubles; false when either is nan
DLess(x, y) ==
    CASE x.k = "nan" \/ y.k = "nan" -> FALSE
      [] x.k = "pinf" -> FALSE
      [] y.k = "ninf" -> FALSE
      [] x.k = "ninf" -> TRUE
      [] y.k = "pinf" -> TRUE
      [] OTHER -> FLess(x.v, y.v)

(***************************************************************************)
(* Donut.__init__                                                          *)
(***************************************************************************)
\* np.linspace(0, 2*np.pi, n), in quarter turns
linspace(n) == [k \in 1..n |-> IF n = 1 THEN 0 ELSE ((k - 1) * 4) \div (n - 1)]
\* np.cos, np.sin of t quarter turns
cosQ(t) == CASE t % 4 = 0 -> 1 [] t % 4 = 2 -> -1 [] OTHER -> 0
sinQ(t) == CASE t % 4 = 1 -> 1 [] t % 4 = 3 -> -1 [] OTHER -> 0
\* np.meshgrid(theta, phi) flattened: entry m has theta index (m-1) % nt and
\* phi index (m-1) \div nt
thetaAt(m, nt) == linspace(nt)[((m - 1) % nt) + 1]
phiAt(m, nt, np) == linspace(np)[((m - 1) \div nt) + 1]

DonutPoints(r1, r2, nt, np) ==
    [m \in 1..(nt * np) |->
        LET th == thetaAt(m, nt)
            ph == phiAt(m, nt, np)
        IN  << Scale * (r2 + r1 * cosQ(th)) * cosQ(ph),
               Scale * (r2 + r1 * cosQ(th)) * sinQ(ph),
               Scale * r1 * sinQ(th) >>]

DonutNormals(nt, np) ==
    [m \in 1..(nt * np) |->
        LET th == thetaAt(m, nt)
            ph == phiAt(m, nt, np)
        IN  << Scale * cosQ(ph) * cosQ(th),
               Scale * sinQ(ph) * cosQ(th),
               Scale * sinQ(th) >>]

(***************************************************************************)
(* Donut.rotate_x, Donut.rotate_y                                          *)
(***************************************************************************)
\* rotation matrices, numerators over A.q
\* faulty variant of Rx: cosine and sine exchanged
RxSwapped(A) == << <<A.q, 0, 0>>, <<0, A.s, -A.c>>, <<0, A.c, A.s>> >>
Rx(A) == << <<A.q, 0, 0>>, <<0, A.c, -A.s>>, <<0, A.s, A.c>> >>
Ry(B) == << <<B.c, 0, B.s>>, <<0, B.q, 0>>, <<-B.s, 0, B.c>> >>
Identity == << <<1, 0, 0>>, <<0, 1, 0>>, <<0, 0, 1>> >>

Dot(u, v) == u[1] * v[1] + u[2] * v[2] + u[3] * v[3]
\* R @ v for one column v, the common denominator q divided out
MatVec(R, v, q) == << Dot(R[1], v) \div q, Dot(R[2], v) \div q, Dot(R[3], v) \div q >>
\* R @ P for a 3 x N array P kept as a sequence of columns
MatMul(R, P, q) == [i \in DOMAIN P |-> MatVec(R, P[i], q)]
Col(M, j) == << M[1][j], M[2][j], M[3][j] >>
\* the 3 x 3 product R @ M, rows of numerators, q divided out
MatMat(R, M, q) == [i \in 1..3 |-> [j \in 1..3 |-> Dot(R[i], Col(M, j)) \div q]]

rotate_x(P, A) == MatMul(Rx(A), P, A.q)
rotate_y(P, B) == MatMul(Ry(B), P, B.q)

Cost(A) == IF A.q = 1 THEN 0 ELSE 1

(***************************************************************************)
(* Stage.__init__                                                          *)
(***************************************************************************)
\* the assertion f > d > dona.R1 + dona.R2 > 0
\* faulty variant of Asserted: d is not compared with R1 + R2
AssertedWithoutRadii(r1, r2, ff, dd) == ff > dd /\ r1 + r2 > 0
Asserted(r1, r2, ff, dd) == ff > dd /\ dd > r1 + r2 /\ r1 + r2 > 0

\* ".,-~:;=!*#$@"
illumination == <<".", ",", "-", "~", ":", ";", "=", "!", "*", "#", "$", "@">>
Blank == " "
\* np.full((n, n), " ")
full(n) == [r \in 0..(n - 1) |-> [c \in 0..(n - 1) |-> Blank]]

(***************************************************************************)
(* Stage.project, Stage.luminance                                          *)
(***************************************************************************)
\* np.reciprocal(y - f); ymf is the numerator of y - f over Scale
reciprocal(ymf) == IF ymf = 0 THEN PInf ELSE Fin(Frac(Scale, ymf))
\* (c * oyo) for the number c (numerator over Scale) and oyo = 1/(y - f)
timesOyo(c, ymf) ==
    IF ymf # 0 THEN Fin(Frac(c, ymf))
    ELSE IF c = 0 THEN NaN
    ELSE IF c > 0 THEN PInf ELSE NInf

project(P, ff, dd) ==
    [ oyo |-> [i \in DOMAIN P |-> reciprocal(P[i][2] - ff * Scale)],
      xp  |-> [i \in DOMAIN P |-> timesOyo((dd - ff) * P[i][1], P[i][2] - ff * Scale)],
      zp  |-> [i \in DOMAIN P |-> timesOyo((dd - ff) * P[i][3], P[i][2] - ff * Scale)] ]

\* - self.light @ self.dona.normals, numerators over Scale
luminance(l, N) == [i \in DOMAIN N |-> Dot(<<-l[1], -l[2], -l[3]>>, N[i])]

\* L.max()
max(s) == CHOOSE m \in {s[i] : i \in DOMAIN s} : \A i \in DOMAIN s : s[i] <= m

(***************************************************************************)
(* np.interp(x, (x0, x1), (y0, y1)) and .astype(int)                       *)
(***************************************************************************)
\* slope * (x - x0) + y0 with slope = (y1 - y0) / (x1 - x0), for x0 <= x < x1
Line(x, x0, x1, y0, y1) ==
    LET num == (y1 - y0) * (x[1] * x0[2] - x0[1] * x[2]) * x1[2]
        den == x[2] * (x1[1] * x0[2] - x0[1] * x1[2])
    IN  Frac(num + y0 * den, den)

interp(x, x0, x1, y0, y1) ==
    IF x.k = "nan" THEN NaN
    ELSE IF DLess(Fin(x1), x) THEN Fin(<<y1, 1>>)
    ELSE IF DLess(x, Fin(x0)) THEN Fin(<<y0, 1>>)
    ELSE IF ~FLess(x.v, x1) THEN Fin(<<y1, 1>>)
    ELSE IF FEq(x.v, x0) THEN Fin(<<y0, 1>>)
    ELSE Fin(Line(x.v, x0, x1, y0, y1))

\* .astype(int): truncation; nan casts to what the build yields
astype_int(x, nanCast) == IF x.k = "nan" THEN nanCast ELSE Trunc(x.v[1], x.v[2])

(***************************************************************************)
(* Stage.render_frame, step by step                                        *)
(***************************************************************************)
\* faulty variant of Rotated: rotate_y before rotate_x
RotatedYThenX(P, A, B) == rotate_x(rotate_y(P, B), A)
\* self.dona.rotate_x(A); self.dona.rotate_y(B)
Rotated(P, A, B) == rotate_y(rotate_x(P, A), B)

\* Lrange = (0, 0.9*L.max())
LuminanceRange(L) == << <<0, 1>>, Frac(9 * max(L), 10 * Scale) >>
\* np.interp(L, Lrange, (0, len(self.illumination)-1)).astype(int)
CharIndex(L, Lrange, nanCast) ==
    [i \in DOMAIN L |->
        astype_int(interp(Fin(<<L[i], Scale>>), Lrange[1], Lrange[2],
                          0, Len(illumination) - 1), nanCast)]

\* 1.1 * I with I = (R2 + R1) * (f - d) / f
Extent(r1, r2, ff, dd) == Frac(11 * (r2 + r1) * (ff - dd), 10 * ff)
MinusExtent(r1, r2, ff, dd) == Frac(-11 * (r2 + r1) * (ff - dd), 10 * ff)

\* faulty variant of Pixel: the line extended beyond the source range
PixelUnclamped(x, lo, hi, n, nanCast) ==
    IF x.k = "fin"
    THEN LET v == Line(x.v, lo, hi, 0, n - 1) IN Trunc(v[1], v[2])
    ELSE astype_int(interp(x, lo, hi, 0, n - 1), nanCast)
\* np.interp(x, (-1.1*I, 1.1*I), (0, num_pixels - 1)).astype(int)
Pixel(x, lo, hi, n, nanCast) == astype_int(interp(x, lo, hi, 0, n - 1), nanCast)

\* np.argsort(keys): a permutation putting keys in ascending order; equal keys
\* stay in the order `tie` names.  rank[i] is the number of keys put before
\* keys[i]; it is bound once and inverted.
Before(keys, tie, i, j) ==
    \/ DLess(keys[i], keys[j])
    \/ /\ ~DLess(keys[j], keys[i])
       /\ IF tie = "low" THEN i < j ELSE i > j
argsort(keys, tie) ==
    CHOOSE order \in
        { [r \in DOMAIN keys |-> CHOOSE i \in DOMAIN keys : rank[i] = r - 1] :
          rank \in { [i \in DOMAIN keys |->
                        Cardinality({j \in DOMAIN keys \ {i} : Before(keys, tie, j, i)})] } } :
        TRUE
\* faulty variant of reversed: the order left ascending
NotReversed(s) == s
\* s[::-1]
reversed(s) == [r \in DOMAIN s |-> s[Len(s) + 1 - r]]
\* np.argsort(oyo)[::-1]
PaintOrder(oyo, tie) == reversed(argsort(oyo, tie))

\* an index numpy accepts on an axis of size n, and the cell it names
ValidIndex(i, n) == -n <= i /\ i <= n - 1
Wrap(i, n) == IF i < 0 THEN i + n ELSE i
\* faulty variant of Assign: a cell already written is kept
RECURSIVE AssignIfBlank(_, _, _, _, _, _)
AssignIfBlank(scr, rows, cols, chs, n, k) ==
    IF k > Len(rows) THEN scr
    ELSE AssignIfBlank(
            IF scr[Wrap(rows[k], n)][Wrap(cols[k], n)] = Blank
            THEN [scr EXCEPT ![Wrap(rows[k], n)][Wrap(cols[k], n)] = chs[k]]
            ELSE scr,
            rows, cols, chs, n, k + 1)
\* self.screen[zp, xp] = chars, written in sequence from position k on
RECURSIVE Assign(_, _, _, _, _, _)
Assign(scr, rows, cols, chs, n, k) ==
    IF k > Len(rows) THEN scr
    ELSE Assign([scr EXCEPT ![Wrap(rows[k], n)][Wrap(cols[k], n)] = chs[k]],
                rows, cols, chs, n, k + 1)

Permuted(s, order) == [r \in DOMAIN order |-> s[order[r]]]
\* faulty variant of Cleared: the screen of the frame before is kept
NotCleared(scr, n) == scr
\* the screen a frame starts from: np.full((n, n), " ")
Cleared(scr, n) == full(n)

(***************************************************************************)
(* State machine                                                           *)
(***************************************************************************)
NoFrame ==
    [ A |-> Zero, B |-> Zero, y |-> <<>>, xp |-> <<>>, zp |-> <<>>, oyo |-> <<>>, L |-> <<>>,
      char_index |-> <<>>, chars |-> <<>>, col |-> <<>>, row |-> <<>>,
      order |-> <<>>, error |-> "none" ]

Init ==
    /\ dona = "none" /\ R1 = 0 /\ R2 = 0
    /\ points = <<>> /\ normals = <<>>
    /\ stage = "none" /\ light = <<0, 0, 0>> /\ f = 0 /\ d = 0 /\ num_pixels = 0
    /\ screen = full(0) /\ prevScreen = full(0)
    /\ tieOrder \in TieOrders
    /\ frame = NoFrame
    /\ orient = Identity
    /\ nrot = 0
    /\ last = "start"

\* Donut(R1, R2, num_thetas, num_phis)
NewDonut(r, s) ==
    /\ dona = "none"
    /\ dona' = "built"
    /\ R1' = r[1] /\ R2' = r[2]
    /\ points' = DonutPoints(r[1], r[2], s[1], s[2])
    /\ normals' = DonutNormals(s[1], s[2])
    /\ orient' = [i \in 1..3 |-> [j \in 1..3 |-> Scale * Identity[i][j]]]
    /\ last' = "Donut"
    /\ UNCHANGED <<stage, light, f, d, num_pixels, screen, tieOrder, frame,
                   prevScreen, nrot>>

\* Stage(dona, light, f, d, num_pixels)
NewStage(l, o, n) ==
    /\ dona = "built" /\ stage = "none"
    /\ IF Asserted(R1, R2, o[1], o[2])
       THEN /\ stage' = "ok"
            /\ light' = l /\ f' = o[1] /\ d' = o[2] /\ num_pixels' = n
            /\ screen' = full(n)
       ELSE /\ stage' = "AssertionError"
            /\ f' = o[1] /\ d' = o[2]
            /\ UNCHANGED <<light, num_pixels, screen>>
    /\ last' = "Stage"
    /\ UNCHANGED <<dona, R1, R2, points, normals, tieOrder, frame, prevScreen,
                   orient, nrot>>

\* dona.rotate_x(A)
RotateX(A) ==
    /\ dona = "built" /\ stage # "AssertionError"
    /\ nrot + Cost(A) <= MaxRot
    /\ points' = rotate_x(points, A)
    /\ normals' = rotate_x(normals, A)
    /\ orient' = MatMat(Rx(A), orient, A.q)
    /\ nrot' = nrot + Cost(A)
    /\ last' = "rotate_x"
    /\ UNCHANGED <<dona, R1, R2, stage, light, f, d, num_pixels, screen,
                   tieOrder, frame, prevScreen>>

\* dona.rotate_y(B)
RotateY(B) ==
    /\ dona = "built" /\ stage # "AssertionError"
    /\ nrot + Cost(B) <= MaxRot
    /\ points' = rotate_y(points, B)
    /\ normals' = rotate_y(normals, B)
    /\ orient' = MatMat(Ry(B), orient, B.q)
    /\ nrot' = nrot + Cost(B)
    /\ last' = "rotate_y"
    /\ UNCHANGED <<dona, R1, R2, stage, light, f, d, num_pixels, screen,
                   tieOrder, frame, prevScreen>>

\* whether the projection pr holds a nan
HasNaN(pr) == \E i \in DOMAIN pr.xp : pr.xp[i].k = "nan" \/ pr.zp[i].k = "nan"

\* stage.render_frame(A, B); nanCast is what the build casts nan to.  Each local
\* of the method is bound once, in the order the method computes it.
RenderFrame(A, B, nanCast) ==
    /\ stage = "ok"
    /\ nrot + Cost(A) + Cost(B) <= MaxRot
    /\ \E cleared \in {Cleared(screen, num_pixels)},
          P \in {Rotated(points, A, B)},
          N \in {Rotated(normals, A, B)} :
       \E pr \in {project(P, f, d)},
          L \in {luminance(light, N)},
          Lrange \in {LuminanceRange(luminance(light, N))},
          lo \in {MinusExtent(R1, R2, f, d)},
          hi \in {Extent(R1, R2, f, d)} :
       \E ci \in {CharIndex(L, Lrange, nanCast)},
          xpix \in {[i \in DOMAIN P |-> Pixel(pr.xp[i], lo, hi, num_pixels, nanCast)]},
          zpix \in {[i \in DOMAIN P |-> Pixel(Neg(pr.zp[i]), lo, hi, num_pixels, nanCast)]},
          order \in {PaintOrder(pr.oyo, tieOrder)} :
       \E chars \in {[i \in DOMAIN ci |-> illumination[ci[i] + 1]]},
          inside \in {\A i \in DOMAIN P : /\ ValidIndex(xpix[i], num_pixels)
                                          /\ ValidIndex(zpix[i], num_pixels)} :
           /\ nanCast = 0 \/ HasNaN(pr)
           /\ points' = P
           /\ normals' = N
           /\ prevScreen' = screen
           /\ screen' = IF inside
                        THEN Assign(cleared, Permuted(zpix, order), Permuted(xpix, order),
                                    Permuted(chars, order), num_pixels, 1)
                        ELSE cleared
           /\ frame' = [ A |-> A, B |-> B, y |-> [i \in DOMAIN P |-> P[i][2]],
                         xp |-> pr.xp, zp |-> pr.zp, oyo |-> pr.oyo,
                         L |-> L, char_index |-> ci, chars |-> chars,
                         col |-> xpix, row |-> zpix, order |-> order,
                         error |-> IF inside THEN "none" ELSE "IndexError" ]
    /\ orient' = MatMat(Ry(B), MatMat(Rx(A), orient, A.q), B.q)
    /\ nrot' = nrot + Cost(A) + Cost(B)
    /\ last' = "render_frame"
    /\ UNCHANGED <<dona, R1, R2, stage, light, f, d, num_pixels, tieOrder>>

Step(radii) ==
    \/ \E r \in radii, s \in Samples : NewDonut(r, s)
    \/ \E l \in Lights, o \in Observers, n \in PixelSizes : NewStage(l, o, n)
    \/ \E A \in Angles : RotateX(A)
    \/ \E B \in Angles : RotateY(B)
    \/ \E A \in Angles, B \in Angles, c \in NanCasts : RenderFrame(A, B, c)

\* radii within the caller contract R1, R2 > 0
Next == Step(Radii)
Spec == Init /\ [][Next]_vars

\* any radii Donut.__init__ takes
NextAny == Step(AnyRadii)
SpecAny == Init /\ [][NextAny]_vars

(***************************************************************************)
(* Properties                                                              *)
(***************************************************************************)
Rendered == frame # NoFrame
Points == DOMAIN frame.y
SameCell(i, j) == frame.row[i] = frame.row[j] /\ frame.col[i] = frame.col[j]
Here(i) == {j \in Points : SameCell(i, j)}
Shown(i) == screen[frame.row[i]][frame.col[i]]
Palette == {illumination[k] : k \in DOMAIN illumination}

\* C1: constructing a Stage succeeds if and only if f > d > R1 + R2 > 0;
\* otherwise it fails with an error and no Stage (no screen, no frame) exists.
C1_ConstructIffChain ==
    stage # "none" =>
        /\ (stage = "ok") <=> (f > d /\ d > R1 + R2 /\ R1 + R2 > 0)
        /\ stage # "ok" =>
              /\ stage = "AssertionError"
              /\ screen = full(0) /\ num_pixels = 0 /\ ~Rendered
C1_Witness == stage = "AssertionError" /\ R1 = 3 /\ R2 = 3 /\ f = 5 /\ d = 4

\* C2: after render_frame, at every pixel to which points of different y map,
\* the character stored is that of a point with the largest y among them.
C2_NearestPointWins ==
    (Rendered /\ frame.error = "none") =>
        \A i \in Points :
            (\E j \in Here(i) : frame.y[j] # frame.y[i]) =>
                \E j \in Here(i) :
                    /\ \A k \in Here(i) : frame.y[k] <= frame.y[j]
                    /\ Shown(i) = frame.chars[j]
C2_Witness ==
    /\ Rendered /\ frame.error = "none"
    /\ \E i \in Points, j \in Points :
          /\ SameCell(i, j) /\ frame.y[i] < frame.y[j]
          /\ \A k \in Here(i) : frame.y[k] <= frame.y[j]
          /\ frame.chars[i] # frame.chars[j]
          /\ Shown(i) = frame.chars[j]

\* C3 as stated: at a pixel shared by points of different invDepth the
\* character is that of a point with the largest invDepth.
C3_LargestInvDepthWins ==
    (Rendered /\ frame.error = "none") =>
        \A i \in Points :
            (\E j \in Here(i) : DLess(frame.oyo[j], frame.oyo[i])) =>
                \E j \in Here(i) :
                    /\ \A k \in Here(i) : ~DLess(frame.oyo[j], frame.oyo[k])
                    /\ Shown(i) = frame.chars[j]
\* C3 amended: at a pixel shared by points of different invDepth = 1/(y - f)
\* the character is that of a point with the smallest invDepth (the nearest),
\* whatever the positions of the points in the point array.
C3_SmallestInvDepthWins ==
    (Rendered /\ frame.error = "none") =>
        \A i \in Points :
            (\E j \in Here(i) : DLess(frame.oyo[j], frame.oyo[i])
                             \/ DLess(frame.oyo[i], frame.oyo[j])) =>
                \E j \in Here(i) :
                    /\ \A k \in Here(i) : ~DLess(frame.oyo[k], frame.oyo[j])
                    /\ Shown(i) = frame.chars[j]
\* a near point placed before a far one in the array, and one placed after,
\* both shown in place of the far point
C3_Witness ==
    /\ Rendered /\ frame.error = "none"
    /\ \E i \in Points, j \in Points :
          /\ i < j /\ SameCell(i, j)
          /\ DLess(frame.oyo[i], frame.oyo[j])
          /\ frame.chars[i] # frame.chars[j]
          /\ Shown(i) = frame.chars[i]
    /\ \E i \in Points, j \in Points :
          /\ i > j /\ SameCell(i, j)
          /\ DLess(frame.oyo[i], frame.oyo[j])
          /\ frame.chars[i] # frame.chars[j]
          /\ Shown(i) = frame.chars[i]

\* C4: the screen is a num_pixels x num_pixels grid of blanks and palette
\* characters; after render_frame a cell is non-blank exactly when a point of
\* the orientation just rendered maps to it, so nothing of an earlier frame
\* stays.
C4_ScreenIsLatestFrame ==
    stage = "ok" =>
        /\ DOMAIN screen = 0..(num_pixels - 1)
        /\ \A r \in DOMAIN screen :
              /\ DOMAIN screen[r] = 0..(num_pixels - 1)
              /\ \A c \in DOMAIN screen[r] :
                    /\ screen[r][c] \in Palette \cup {Blank}
                    /\ screen[r][c] # Blank <=>
                          \E i \in Points : frame.row[i] = r /\ frame.col[i] = c
        /\ last = "render_frame" => frame.y = [i \in DOMAIN points |-> points[i][2]]
\* a cell written by the frame before is blank in the latest one
C4_Witness ==
    /\ last = "render_frame"
    /\ \E r \in DOMAIN screen : \E c \in DOMAIN screen[r] :
          prevScreen[r][c] # Blank /\ screen[r][c] = Blank

\* C5: render_frame(0, 0) called right after render_frame(0, 0) leaves the
\* screen buffer, the points and the normals as the first call left them.
C5_RenderZeroTwice ==
    [][ ( /\ last = "render_frame" /\ frame.A = Zero /\ frame.B = Zero
          /\ last' = "render_frame" /\ frame'.A = Zero /\ frame'.B = Zero )
        => (screen' = screen /\ points' = points /\ normals' = normals) ]_vars
\* the second of two render_frame(0, 0) calls on a rotated donut has run
C5_Witness ==
    /\ last = "render_frame" /\ frame.A = Zero /\ frame.B = Zero
    /\ nrot > 0 /\ Len(points) > 1
    /\ prevScreen = screen
    /\ \E r \in DOMAIN screen : \E c \in DOMAIN screen[r] : screen[r][c] # Blank

\* C6: for every configuration Stage.__init__ accepts, every point has
\* y <= R1 + R2 < d < f, so y - f is negative and project never divides by 0.
C6_PointsBelowObserver ==
    stage = "ok" =>
        /\ \A i \in DOMAIN points :
              /\ points[i][2] <= (R1 + R2) * Scale
              /\ points[i][2] - f * Scale < 0
        /\ \A i \in DOMAIN frame.oyo : frame.oyo[i].k = "fin"

\* C7: render_frame(A, B) takes points and normals to Ry(B).Rx(A) applied to
\* them as they were before the call; the rotations of all calls accumulate on
\* the state at construction.
C7_RotationOrder ==
    /\ [][ last' = "render_frame" =>
             /\ points' = MatMul(MatMat(Ry(frame'.B), Rx(frame'.A), 1), points,
                                 frame'.A.q * frame'.B.q)
             /\ normals' = MatMul(MatMat(Ry(frame'.B), Rx(frame'.A), 1), normals,
                                  frame'.A.q * frame'.B.q) ]_vars
    /\ [](dona = "built" =>
            \E s \in Samples :
                /\ points = MatMul(orient, DonutPoints(R1, R2, s[1], s[2]), Scale)
                /\ normals = MatMul(orient, DonutNormals(s[1], s[2]), Scale))
\* a frame that turned about both axes, after an earlier frame
C7_Witness ==
    /\ last = "render_frame" /\ frame.A = Alpha /\ frame.B = Alpha
    /\ Len(points) > 1
    /\ \E r \in DOMAIN prevScreen : \E c \in DOMAIN prevScreen[r] :
          prevScreen[r][c] # Blank

\* C8: the palette index of every point lies in 0..11, does not decrease with
\* the luminance L, and is 0 whenever L <= 0.
C8_PaletteIndex ==
    Rendered =>
        \A i \in DOMAIN frame.L :
            /\ frame.char_index[i] \in 0..(Len(illumination) - 1)
            /\ \A j \in DOMAIN frame.L :
                  frame.L[i] <= frame.L[j] => frame.char_index[i] <= frame.char_index[j]
            /\ frame.L[i] <= 0 => frame.char_index[i] = 0

\* C9: whenever f > d > R1 + R2 > 0, the projected xp and zp of every point lie
\* inside [-1.1*I, 1.1*I], I = (R1 + R2)*(f - d)/f.
C9_ProjectionWithinExtent ==
    Rendered =>
        \A i \in Points :
            /\ ~DLess(Fin(Extent(R1, R2, f, d)), frame.xp[i])
            /\ ~DLess(frame.xp[i], Fin(MinusExtent(R1, R2, f, d)))
            /\ ~DLess(Fin(Extent(R1, R2, f, d)), frame.zp[i])
            /\ ~DLess(frame.zp[i], Fin(MinusExtent(R1, R2, f, d)))

\* C10: in every render_frame call the pixel column and row of every point
\* with a finite projection lie in 0..num_pixels-1.
C10_PixelInsideGrid ==
    Rendered =>
        \A i \in Points :
            /\ frame.xp[i].k = "fin" => frame.col[i] \in 0..(num_pixels - 1)
            /\ frame.zp[i].k = "fin" => frame.row[i] \in 0..(num_pixels - 1)
\* a projection beyond the source range, held on the last column or the first row
C10_Witness ==
    /\ Rendered
    /\ \E i \in Points :
          \/ /\ frame.xp[i].k = "fin"
             /\ DLess(Fin(Extent(R1, R2, f, d)), frame.xp[i])
             /\ frame.col[i] = num_pixels - 1
          \/ /\ frame.zp[i].k = "fin"
             /\ DLess(Fin(Extent(R1, R2, f, d)), frame.zp[i])
             /\ frame.row[i] = 0

====
